---- MODULE Spec2Model ----
(***************************************************************************)
(* Model of lsseg/geometry.py: the CobbAngleCalculator object, its         *)
(* execute() pipeline and its getters; and of lsseg/segmentation.py:       *)
(* SubImageManager2D.calculate_indices and ThresholdSegmentation.execute.  *)
(*                                                                         *)
(* Conventions                                                             *)
(*   - Python None is the empty tuple <<>> (no numpy array that reshape    *)
(*     produces is empty, no point list is empty).                         *)
(*   - numpy arrays are tuples of rows, indices are 1-based here: the      *)
(*     source's a[6,0] is a[7][1].                                         *)
(*   - physical coordinates of box vertices are integers; the values the   *)
(*     least-squares stage produces are exact rationals <<num, den>>.      *)
(*   - an exception that leaves a call is recorded in the variable raised  *)
(*     by its Python class name.                                           *)
(***************************************************************************)
EXTENDS Integers, Sequences, FiniteSets, TLC

\* Label indices a caller passes are 0..MaxLabel (0 is the background).
MaxLabel == 3

\* The number of times the caller reassigns an input field of one calculator.
MaxEdits == 1

\* The number of execute() calls the caller makes between two reassignments.
MaxRuns == 2

Labels == 0..MaxLabel

None == <<>>

NoError == "none"

-----------------------------------------------------------------------------
(* Exact rationals <<n, d>>, d > 0, in lowest terms.                       *)

Abs(n) == IF n < 0 THEN -n ELSE n

RECURSIVE GCD(_, _)
GCD(a, b) == IF b = 0 THEN a ELSE GCD(b, a % b)

Rat(n, d) ==
    LET g  == GCD(Abs(n), Abs(d))
        sg == IF d < 0 THEN -1 ELSE 1
    IN  << sg * (n \div g), sg * (d \div g) >>

RInt(n) == << n, 1 >>

RAdd(a, b) == Rat(a[1] * b[2] + b[1] * a[2], a[2] * b[2])

RSub(a, b) == Rat(a[1] * b[2] - b[1] * a[2], a[2] * b[2])

RMul(a, b) == Rat(a[1] * b[1], a[2] * b[2])

RHalf(a) == Rat(a[1], 2 * a[2])

\* itk::Math::RoundHalfIntegerUp of a rational.
RoundHalfIntegerUp(a) == (2 * a[1] + a[2]) \div (2 * a[2])

-----------------------------------------------------------------------------
(* Integer vectors (numpy arrays of one axis).                             *)

VSub(a, b) == [i \in 1..Len(a) |-> a[i] - b[i]]

RECURSIVE DotUpTo(_, _, _)
DotUpTo(a, b, n) == IF n = 0 THEN 0 ELSE DotUpTo(a, b, n - 1) + a[n] * b[n]

\* np.dot of two vectors of the same length.
Dot(a, b) == DotUpTo(a, b, Len(a))

\* np.array(flat).reshape(rows, cols)
Reshape(flat, rows, cols) ==
    [i \in 1..rows |-> [j \in 1..cols |-> flat[(i - 1) * cols + j]]]

\* ndarray.size of a two-axis array.
Size(arr) == Len(arr) * Len(arr[1])

-----------------------------------------------------------------------------
(* The inputs: label maps and images.  A label map is named by an id; its  *)
(* geometry and the oriented bounding box the shape-statistics filter      *)
(* reports for each label are given by the operators below.                *)

LabelMaps == {"vol_a", "vol_b", "img_a"}

MapDim(lm) == IF lm = "img_a" THEN 2 ELSE 3

MapOrigin(lm) == [i \in 1..MapDim(lm) |-> -1]

MapSpacing(lm) == [i \in 1..MapDim(lm) |-> 2]

\* sitk.Image as far as the calculator uses it: GetDimension() and the
\* physical-to-index transform (origin, spacing, identity direction).
ImageOf(lm) == [dim |-> MapDim(lm), origin |-> MapOrigin(lm), spacing |-> MapSpacing(lm)]

\* The label object of a label in a label map: absent (label 0 is the
\* background and never an object), a box given by its origin and edge
\* vectors, or an object for which the filter hands back a vertex list of
\* another length than 2^dim * dim.
LabelObject(lm, label) ==
    CASE lm = "vol_a" /\ label = 1 ->
            [kind |-> "box", o |-> <<0, 0, 4>>,
             e |-> << <<2, 0, 0>>, <<0, 2, 0>>, <<0, 0, 1>> >>]
      [] lm = "vol_a" /\ label = 2 ->
            [kind |-> "box", o |-> <<0, 0, 0>>,
             e |-> << <<2, 1, 0>>, <<-1, 2, 0>>, <<0, 0, 2>> >>]
      [] lm = "vol_a" /\ label = 3 ->
            [kind |-> "box", o |-> <<1, 1, 1>>,
             e |-> << <<0, 0, 0>>, <<0, 2, 0>>, <<0, 0, 1>> >>]
      [] lm = "vol_b" /\ label = 1 ->
            [kind |-> "box", o |-> <<0, 2, 3>>,
             e |-> << <<2, 0, 1>>, <<0, 2, 0>>, <<-1, 0, 2>> >>]
      [] lm = "vol_b" /\ label = 2 ->
            [kind |-> "malformed", o |-> <<0, 0, 0>>,
             e |-> << <<2, 0, 0>>, <<0, 2, 0>>, <<0, 0, 1>> >>]
      [] lm = "vol_b" /\ label = 3 ->
            [kind |-> "box", o |-> <<0, 0, 0>>,
             e |-> << <<2, 0, 0>>, <<0, 2, 0>>, <<0, 0, 1>> >>]
      [] lm = "img_a" /\ label = 1 ->
            [kind |-> "box", o |-> <<0, 4>>,
             e |-> << <<2, 0>>, <<0, 1>> >>]
      [] lm = "img_a" /\ label = 2 ->
            [kind |-> "box", o |-> <<0, 0>>,
             e |-> << <<2, 1>>, <<-1, 2>> >>]
      [] lm = "img_a" /\ label = 3 ->
            [kind |-> "malformed", o |-> <<0, 0>>,
             e |-> << <<2, 0>>, <<0, 1>> >>]
      [] OTHER ->
            [kind |-> "absent", o |-> <<>>, e |-> <<>>]

Pow2(n) == IF n = 0 THEN 1 ELSE IF n = 1 THEN 2 ELSE IF n = 2 THEN 4 ELSE 8

\* Bit j (0-based) of i.
Bit(i, j) == (i \div Pow2(j)) % 2

\* Vertex i (0-based) of a box: origin plus the edges whose bit is set in i.
BoxVertex(obj, i) ==
    [c \in 1..Len(obj.o) |->
        obj.o[c] + (IF Len(obj.e) >= 1 THEN Bit(i, 0) * obj.e[1][c] ELSE 0)
                 + (IF Len(obj.e) >= 2 THEN Bit(i, 1) * obj.e[2][c] ELSE 0)
                 + (IF Len(obj.e) >= 3 THEN Bit(i, 2) * obj.e[3][c] ELSE 0)]

\* The flat coordinate list of all 2^dim vertices.
BoxFlat(obj) ==
    LET d == Len(obj.o)
    IN  [k \in 1..(Pow2(d) * d) |-> BoxVertex(obj, (k - 1) \div d)[((k - 1) % d) + 1]]

\* LabelShapeStatisticsImageFilter.Execute(label_map) followed by
\* GetOrientedBoundingBoxVertices(label): raises for a label that is not in
\* the map, else returns the flat vertex list.
GetOrientedBoundingBoxVertices(lm, label) ==
    LET obj == LabelObject(lm, label)
    IN  CASE obj.kind = "absent"    -> [raised |-> "RuntimeError", vertices |-> <<>>]
          [] obj.kind = "malformed" -> [raised |-> NoError, vertices |-> SubSeq(BoxFlat(obj), 1, 6)]
          [] OTHER                  -> [raised |-> NoError, vertices |-> BoxFlat(obj)]

-----------------------------------------------------------------------------
(* The calculator object.                                                  *)

VARIABLES
    self,       \* the fields of the CobbAngleCalculator instance
    last_op,    \* the method the caller ran last
    raised,     \* the exception that left that call, or NoError
    stage,      \* number of pipeline stages the last execute() completed
    ret,        \* what the last getter returned
    edits,      \* number of input fields the caller has reassigned
    runs,       \* number of execute() calls since the inputs were last assigned
    ran,        \* the pipeline stages the last call entered, in order
    lines,      \* two tangent lines on their way through the angle and intersection stages
    pair,       \* two calculators over one label map, run stage by stage
    roi,        \* a SubImageManager2D instance
    seg         \* a ThresholdSegmentation instance

vars == << self, last_op, raised, stage, ret, edits, runs, ran, lines, pair, roi, seg >>

\* The value of a variable that a specification does not use.
Unused == <<>>

\* The variables the specification of the single calculator leaves alone.
notCalculator == << lines, pair, roi, seg >>

\* A floating-point angle in degrees: a number or NaN.
Number(n) == [nan |-> FALSE, deg |-> n]

NaN == [nan |-> TRUE, deg |-> 0]

NoReturn == [kind |-> "none", val |-> <<>>]

\* CobbAngleCalculator.__init__
Construct(lm, uv, lv) ==
    [ image                     |-> ImageOf(lm),
      label_map                 |-> lm,
      lv_label_index            |-> lv,
      uv_label_index            |-> uv,
      dimension                 |-> ImageOf(lm).dim,
      uv_oriented_bbox_vertices |-> None,
      lv_oriented_bbox_vertices |-> None,
      uv_p1                     |-> None,
      uv_p2                     |-> None,
      lv_p1                     |-> None,
      lv_p2                     |-> None,
      intersection_point        |-> None,
      cobb_angle                |-> Number(0) ]

Init ==
    /\ \E lm \in LabelMaps, uv \in Labels, lv \in Labels : self = Construct(lm, uv, lv)
    /\ last_op = "init"
    /\ raised = NoError
    /\ stage = 0
    /\ ret = NoReturn
    /\ edits = 0
    /\ runs = 0
    /\ ran = <<>>
    /\ lines = Unused
    /\ pair = Unused
    /\ roi = Unused
    /\ seg = Unused

-----------------------------------------------------------------------------
(* The pipeline stages.  Each takes the object and returns the object      *)
(* after the stage together with the exception that left the stage.        *)

Outcome(s, exc) == [self |-> s, raised |-> exc]

\* CobbAngleCalculator.__calc_uv_bbox_vertices
CalcUvBboxVertices(s) ==
    LET out == GetOrientedBoundingBoxVertices(s.label_map, s.uv_label_index)
        bounding_box_vertices == out.vertices
        s1 == IF Len(bounding_box_vertices) = 24
              THEN [s EXCEPT !.uv_oriented_bbox_vertices = Reshape(bounding_box_vertices, 8, 3)]
              ELSE s
        s2 == IF Len(bounding_box_vertices) = 8
              THEN [s1 EXCEPT !.uv_oriented_bbox_vertices = Reshape(bounding_box_vertices, 4, 2)]
              ELSE s1
    IN  IF out.raised # NoError THEN Outcome(s, out.raised) ELSE Outcome(s2, NoError)

\* CobbAngleCalculator.__calc_lv_bbox_vertices
CalcLvBboxVertices(s) ==
    LET out == GetOrientedBoundingBoxVertices(s.label_map, s.lv_label_index)
        bounding_box_vertices == out.vertices
        s1 == IF Len(bounding_box_vertices) = 24
              THEN [s EXCEPT !.lv_oriented_bbox_vertices = Reshape(bounding_box_vertices, 8, 3)]
              ELSE s
        s2 == IF Len(bounding_box_vertices) = 8
              THEN [s1 EXCEPT !.lv_oriented_bbox_vertices = Reshape(bounding_box_vertices, 4, 2)]
              ELSE s1
    IN  IF out.raised # NoError THEN Outcome(s, out.raised) ELSE Outcome(s2, NoError)

\* The lower tangent taken from the same edge as the upper one, lv[0,:], lv[1,:].
LvRowsAsUpper == << 1, 2 >>

\* Rows (1-based) of the lower box the 3-D branch reads: lv[6,:], lv[7,:].
LvRows3D == << 7, 8 >>

\* Rows (1-based) of the lower box the 2-D branch reads: lv[2,:], lv[3,:].
LvRows2D == << 3, 4 >>

\* The first n coordinates of row r of a two-axis array: [a[r,0], .., a[r,n-1]].
RowPrefix(arr, r, n) == [c \in 1..n |-> arr[r][c]]

\* CobbAngleCalculator.__set_bbox_tan_line_points
SetBboxTanLinePoints(s) ==
    LET uv == s.uv_oriented_bbox_vertices
        lv == s.lv_oriented_bbox_vertices
    IN  IF uv = None THEN Outcome(s, "AttributeError")
        ELSE IF Size(uv) = 24 THEN
            LET s1 == [s EXCEPT !.uv_p1 = RowPrefix(uv, 1, 3),
                                !.uv_p2 = RowPrefix(uv, 2, 3)]
            IN  IF lv = None THEN Outcome(s1, "TypeError")
                ELSE IF Len(lv) < LvRows3D[2] \/ Len(lv[1]) < 3 THEN Outcome(s1, "IndexError")
                ELSE Outcome([s1 EXCEPT !.lv_p1 = RowPrefix(lv, LvRows3D[1], 3),
                                        !.lv_p2 = RowPrefix(lv, LvRows3D[2], 3)], NoError)
        ELSE IF Size(uv) = 8 THEN
            LET s1 == [s EXCEPT !.uv_p1 = RowPrefix(uv, 1, 2),
                                !.uv_p2 = RowPrefix(uv, 2, 2)]
            IN  IF lv = None THEN Outcome(s1, "TypeError")
                ELSE Outcome([s1 EXCEPT !.lv_p1 = RowPrefix(lv, LvRows2D[1], 2),
                                        !.lv_p2 = RowPrefix(lv, LvRows2D[2], 2)], NoError)
        ELSE Outcome(s, NoError)

\* cos^2((k - 1/2) degrees) * 10^6, rounded down, for k = 1..90: the
\* boundaries between whole degrees of np.degrees(np.arccos(c)).
CosSqHalfDeg ==
    << 999923, 999314, 998097, 996273, 993844, 990813, 987185, 982962, 978152, 972759,
       966790, 960252, 953153, 945503, 937309, 928583, 919335, 909576, 899317, 888572,
       877354, 865676, 853553, 840999, 828029, 814660, 800907, 786788, 772319, 757519,
       742404, 726995, 711309, 695365, 679183, 662784, 646185, 629409, 612475, 595404,
       578217, 560934, 543577, 526167, 508726, 491273, 473832, 456422, 439065, 421782,
       404595, 387524, 370590, 353814, 337215, 320816, 304634, 288690, 273004, 257595,
       242480, 227680, 213211, 199092, 185339, 171970, 159000, 146446, 134323, 122645,
       111427, 100682, 90423, 80664, 71416, 62690, 54496, 46846, 39747, 33209,
       27240, 21847, 17037, 12814, 9186, 6155, 3726, 1902, 685, 76 >>

\* A cosine is kept exactly as num / sqrt(densq); densq = 0 is 0/0, NaN.
\* np.clip(cos_theta, -1.0, 1.0): NaN stays NaN.
Clip(c) ==
    IF c.densq = 0 THEN c
    ELSE IF c.num * c.num > c.densq
         THEN [num |-> IF c.num < 0 THEN -1 ELSE 1, densq |-> 1]
         ELSE c

\* c < cos((k - 1/2) degrees), for k in 1..180.
BelowHalfDeg(c, k) ==
    IF k <= 90
    THEN c.num < 0 \/ c.num * c.num * 1000000 < CosSqHalfDeg[k] * c.densq
    ELSE c.num < 0 /\ c.num * c.num * 1000000 > CosSqHalfDeg[181 - k] * c.densq

\* np.degrees(np.arccos(c)), to the nearest whole degree.
ArccosDegrees(c) ==
    IF c.densq = 0 THEN NaN
    ELSE Number(Cardinality({k \in 1..180 : BelowHalfDeg(c, k)}))

\* The cosine of the acute angle between the lines: the dot product taken
\* without its sign.
CosThetaUnsigned(s) ==
    LET line1 == VSub(s.uv_p2, s.uv_p1)
        line2 == VSub(s.lv_p2, s.lv_p1)
        dot_product == Abs(Dot(line1, line2))
    IN  [num |-> dot_product, densq |-> Dot(line1, line1) * Dot(line2, line2)]

\* cos_theta of __calc_angle_between_lines before the clip: the dot product
\* of the two direction vectors over the product of their norms.
CosTheta(s) ==
    LET line1 == VSub(s.uv_p2, s.uv_p1)
        line2 == VSub(s.lv_p2, s.lv_p1)
        dot_product == Dot(line1, line2)
        \* norm_line1 * norm_line2 = sqrt(|line1|^2 * |line2|^2)
    IN  [num |-> dot_product, densq |-> Dot(line1, line1) * Dot(line2, line2)]

\* The angle added to the one the object already holds.
CalcAngleAccumulating(s) ==
    LET theta_deg == ArccosDegrees(Clip(CosTheta(s)))
    IN  IF theta_deg.nan \/ s.cobb_angle.nan THEN theta_deg
        ELSE Number(s.cobb_angle.deg + theta_deg.deg)

\* CobbAngleCalculator.__calc_angle_between_lines; the value it returns.
CalcAngleBetweenLines(s) == ArccosDegrees(Clip(CosTheta(s)))

\* scipy.optimize.least_squares(errFunc, estimates).x for the residual
\*   errFunc(s, t) = p1 + s (p2 - p1) - (q1 + t (q2 - q1)),
\* which is linear in (s, t): the minimiser of |errFunc|^2, and when the
\* minimisers form a line or the plane (parallel or zero-length lines) the
\* one nearest the initial estimates, which the solver's steps, all in the
\* row space of the Jacobian, converge to.
LeastSquares(p1, p2, q1, q2, estimates) ==
    LET d1  == VSub(p2, p1)
        d2  == VSub(q2, q1)
        w   == VSub(p1, q1)
        a   == Dot(d1, d1)
        b   == Dot(d1, d2)
        c   == Dot(d2, d2)
        d   == Dot(d1, w)
        e   == Dot(d2, w)
        det == a * c - b * b
        s0  == estimates[1]
        t0  == estimates[2]
    IN  IF det # 0 THEN << Rat(b * e - c * d, det), Rat(a * e - b * d, det) >>
        ELSE IF a # 0 THEN
            \* project (s0, t0) on the line a s - b t + d = 0
            LET k == Rat(a * s0 - b * t0 + d, a * a + b * b)
            IN  << RSub(RInt(s0), RMul(RInt(a), k)), RAdd(RInt(t0), RMul(RInt(b), k)) >>
        ELSE IF c # 0 THEN
            \* a = b = 0: s is free, c t = e
            << RInt(s0), Rat(e, c) >>
        ELSE << RInt(s0), RInt(t0) >>

\* The initial estimates of the least-squares solve.
Estimates == << 1, 1 >>

\* p[i] + s * (q[i] - p[i]) for a rational s.
Along(p, q, i, s) == RAdd(RInt(p[i]), RMul(s, RInt(q[i] - p[i])))

\* The point of the upper line at the fitted parameter, without the
\* average with the point of the lower line.
CalcIntersectionOnUpperLine(s) ==
    LET p1 == s.uv_p1
        p2 == s.uv_p2
        sols == LeastSquares(p1, p2, s.lv_p1, s.lv_p2, Estimates)
    IN  IF Len(p1) < 3 THEN Outcome(s, "IndexError")
        ELSE Outcome([s EXCEPT !.intersection_point =
                         << Along(p1, p2, 1, sols[1]), Along(p1, p2, 2, sols[1]),
                            Along(p1, p2, 3, sols[1]) >>], NoError)

\* CobbAngleCalculator.__calc_intersection
CalcIntersection(s) ==
    LET p1 == s.uv_p1
        p2 == s.uv_p2
        q1 == s.lv_p1
        q2 == s.lv_p2
        sols == LeastSquares(p1, p2, q1, q2, Estimates)
        x == RHalf(RAdd(Along(p1, p2, 1, sols[1]), Along(q1, q2, 1, sols[2])))
        y == RHalf(RAdd(Along(p1, p2, 2, sols[1]), Along(q1, q2, 2, sols[2])))
        z == RHalf(RAdd(Along(p1, p2, 3, sols[1]), Along(q1, q2, 3, sols[2])))
    IN  IF Len(p1) < 3 THEN Outcome(s, "IndexError")
        ELSE Outcome([s EXCEPT !.intersection_point = << x, y, z >>], NoError)

\* The stages of execute() in the order of its statements.
Pipeline == << "uv_bbox_vertices", "lv_bbox_vertices", "bbox_tan_line_points",
               "angle_between_lines", "intersection" >>

\* The physical-to-index conversion the index getters perform.
ToIndex == "physical_point_to_index"

\* execute() with the tangent selection moved ahead of the lower box
\* extraction.
execute_tangent_before_lv(s) ==
    LET order == << Pipeline[1], Pipeline[3], Pipeline[2], Pipeline[4], Pipeline[5] >>
        r1 == CalcUvBboxVertices(s)
        r2 == SetBboxTanLinePoints(r1.self)
        r3 == CalcLvBboxVertices(r2.self)
        s4 == [r3.self EXCEPT !.cobb_angle = CalcAngleBetweenLines(r3.self)]
        r5 == CalcIntersection(s4)
    IN  IF r1.raised # NoError
        THEN [self |-> r1.self, raised |-> r1.raised, stage |-> 0, ran |-> SubSeq(order, 1, 1)]
        ELSE IF r2.raised # NoError
        THEN [self |-> r2.self, raised |-> r2.raised, stage |-> 1, ran |-> SubSeq(order, 1, 2)]
        ELSE IF r3.raised # NoError
        THEN [self |-> r3.self, raised |-> r3.raised, stage |-> 2, ran |-> SubSeq(order, 1, 3)]
        ELSE IF r5.raised # NoError
        THEN [self |-> r5.self, raised |-> r5.raised, stage |-> 4, ran |-> SubSeq(order, 1, 5)]
        ELSE [self |-> r5.self, raised |-> NoError, stage |-> 5, ran |-> SubSeq(order, 1, 5)]

\* CobbAngleCalculator.execute: the object after the call, the exception
\* that left it, the number of stages completed before it and the stages
\* entered.
execute(s) ==
    LET r1 == CalcUvBboxVertices(s)
        r2 == CalcLvBboxVertices(r1.self)
        r3 == SetBboxTanLinePoints(r2.self)
        s4 == [r3.self EXCEPT !.cobb_angle = CalcAngleBetweenLines(r3.self)]
        r5 == CalcIntersection(s4)
    IN  IF r1.raised # NoError
        THEN [self |-> r1.self, raised |-> r1.raised, stage |-> 0, ran |-> SubSeq(Pipeline, 1, 1)]
        ELSE IF r2.raised # NoError
        THEN [self |-> r2.self, raised |-> r2.raised, stage |-> 1, ran |-> SubSeq(Pipeline, 1, 2)]
        ELSE IF r3.raised # NoError
        THEN [self |-> r3.self, raised |-> r3.raised, stage |-> 2, ran |-> SubSeq(Pipeline, 1, 3)]
        ELSE IF r5.raised # NoError
        THEN [self |-> r5.self, raised |-> r5.raised, stage |-> 4, ran |-> SubSeq(Pipeline, 1, 5)]
        ELSE [self |-> r5.self, raised |-> NoError, stage |-> 5, ran |-> SubSeq(Pipeline, 1, 5)]

-----------------------------------------------------------------------------
(* The caller's operations.                                                *)

\* calculator.execute()
Execute ==
    LET r == execute(self)
    IN  /\ runs < MaxRuns
        /\ runs' = runs + 1
        /\ self' = r.self
        /\ raised' = r.raised
        /\ stage' = r.stage
        /\ ran' = r.ran
        /\ last_op' = "execute"
        /\ ret' = NoReturn
        /\ UNCHANGED << edits, notCalculator >>

\* calculator.uv_label_index = label
SetUvLabelIndex ==
    \E label \in Labels :
        /\ label # self.uv_label_index
        /\ self' = [self EXCEPT !.uv_label_index = label]
        /\ edits < MaxEdits
        /\ edits' = edits + 1
        /\ runs' = 0
        /\ last_op' = "set_uv_label_index"
        /\ raised' = NoError
        /\ ret' = NoReturn
        /\ ran' = <<>>
        /\ UNCHANGED << stage, notCalculator >>

\* calculator.lv_label_index = label
SetLvLabelIndex ==
    \E label \in Labels :
        /\ label # self.lv_label_index
        /\ self' = [self EXCEPT !.lv_label_index = label]
        /\ edits < MaxEdits
        /\ edits' = edits + 1
        /\ runs' = 0
        /\ last_op' = "set_lv_label_index"
        /\ raised' = NoError
        /\ ret' = NoReturn
        /\ ran' = <<>>
        /\ UNCHANGED << stage, notCalculator >>

\* calculator.label_map = lm
SetLabelMap ==
    \E lm \in LabelMaps :
        /\ lm # self.label_map
        /\ self' = [self EXCEPT !.label_map = lm]
        /\ edits < MaxEdits
        /\ edits' = edits + 1
        /\ runs' = 0
        /\ last_op' = "set_label_map"
        /\ raised' = NoError
        /\ ret' = NoReturn
        /\ ran' = <<>>
        /\ UNCHANGED << stage, notCalculator >>

-----------------------------------------------------------------------------
(* The getters.  Each records what the call returned, or the exception     *)
(* that left it, and leaves the object alone.                              *)

Returned(kind, val) == [kind |-> kind, val |-> val]

\* sitk.Image.TransformPhysicalPointToIndex for a point of rationals: the
\* point needs at least as many coordinates as the image has dimensions,
\* coordinates beyond the dimension are dropped.
TransformPhysicalPointToIndex(img, point) ==
    IF Len(point) < img.dim
    THEN [raised |-> "RuntimeError", index |-> <<>>]
    ELSE [raised |-> NoError,
          index  |-> [i \in 1..img.dim |->
                        RoundHalfIntegerUp(RMul(RSub(point[i], RInt(img.origin[i])),
                                                Rat(1, img.spacing[i])))]]

\* A list of integer coordinates as a point of rationals.
AsPoint(p) == [i \in 1..Len(p) |-> RInt(p[i])]

\* The body shared by get_uv_oriented_bbox_indices and
\* get_lv_oriented_bbox_indices: every row of the box through the label
\* map's transform, stored in an array shaped like the box.
BboxIndices(s, vertices) ==
    LET img == ImageOf(s.label_map)
        t(i) == TransformPhysicalPointToIndex(img, AsPoint(vertices[i]))
    IN  IF vertices = None THEN [raised |-> "TypeError", val |-> <<>>, calls |-> 0]
        ELSE IF t(1).raised # NoError THEN [raised |-> t(1).raised, val |-> <<>>, calls |-> 1]
        ELSE IF Len(t(1).index) # Len(vertices[1])
        THEN [raised |-> "ValueError", val |-> <<>>, calls |-> 1]
        ELSE [raised |-> NoError, val |-> [i \in 1..Len(vertices) |-> t(i).index],
              calls |-> Len(vertices)]

\* The 3-coordinate tuple (p[0], p[1], p[2]) the index getters build.
Triple(p, rational) ==
    IF p = None THEN [raised |-> "TypeError", point |-> <<>>]
    ELSE IF Len(p) < 3 THEN [raised |-> "IndexError", point |-> <<>>]
    ELSE [raised |-> NoError,
          point  |-> IF rational THEN << p[1], p[2], p[3] >> ELSE AsPoint(<< p[1], p[2], p[3] >>)]

\* self.image.TransformPhysicalPointToIndex((p[0], p[1], p[2]))
ImageIndexOf(s, p, rational) ==
    LET tr == Triple(p, rational)
        t  == TransformPhysicalPointToIndex(s.image, tr.point)
    IN  IF tr.raised # NoError THEN [raised |-> tr.raised, index |-> <<>>, calls |-> 0]
        ELSE [raised |-> t.raised, index |-> t.index, calls |-> 1]

\* n conversions entered one after the other.
Conversions(n) == [i \in 1..n |-> ToIndex]

\* A getter that keeps the array it returns in the box field it was
\* computed from.
GetterKeepingResult(name, exc, result, entered) ==
    /\ last_op' = name
    /\ raised' = exc
    /\ ret' = result
    /\ ran' = entered
    /\ self' = IF exc = NoError /\ name = "get_uv_oriented_bbox_indices"
               THEN [self EXCEPT !.uv_oriented_bbox_vertices = result.val]
               ELSE self
    /\ UNCHANGED << stage, edits, runs, notCalculator >>

\* A getter call: what it raises or returns, and the conversions it
\* enters; the object is left as it is.
Getter(name, exc, result, entered) ==
    /\ last_op' = name
    /\ raised' = exc
    /\ ret' = result
    /\ ran' = entered
    /\ UNCHANGED << self, stage, edits, runs, notCalculator >>

\* CobbAngleCalculator.get_uv_oriented_bbox_vertices
get_uv_oriented_bbox_vertices ==
    Getter("get_uv_oriented_bbox_vertices", NoError,
           IF self.uv_oriented_bbox_vertices = None
           THEN Returned("None", <<>>)
           ELSE Returned("array", self.uv_oriented_bbox_vertices),
           <<>>)

\* CobbAngleCalculator.get_lv_oriented_bbox_vertices
get_lv_oriented_bbox_vertices ==
    Getter("get_lv_oriented_bbox_vertices", NoError,
           IF self.lv_oriented_bbox_vertices = None
           THEN Returned("None", <<>>)
           ELSE Returned("array", self.lv_oriented_bbox_vertices),
           <<>>)

\* CobbAngleCalculator.get_uv_oriented_bbox_indices
get_uv_oriented_bbox_indices ==
    LET r == BboxIndices(self, self.uv_oriented_bbox_vertices)
    IN  Getter("get_uv_oriented_bbox_indices", r.raised,
               IF r.raised # NoError THEN NoReturn ELSE Returned("array", r.val),
               Conversions(r.calls))

\* CobbAngleCalculator.get_lv_oriented_bbox_indices
get_lv_oriented_bbox_indices ==
    LET r == BboxIndices(self, self.lv_oriented_bbox_vertices)
    IN  Getter("get_lv_oriented_bbox_indices", r.raised,
               IF r.raised # NoError THEN NoReturn ELSE Returned("array", r.val),
               Conversions(r.calls))

\* CobbAngleCalculator.get_cobb_angle
get_cobb_angle ==
    Getter("get_cobb_angle", NoError, Returned("number", self.cobb_angle), <<>>)

\* CobbAngleCalculator.get_intersection_point_index
get_intersection_point_index ==
    LET r == ImageIndexOf(self, self.intersection_point, TRUE)
    IN  Getter("get_intersection_point_index", r.raised,
               IF r.raised # NoError THEN NoReturn ELSE Returned("index", r.index),
               Conversions(r.calls))

\* CobbAngleCalculator.get_angle_indices
get_angle_indices ==
    LET ca_p1 == ImageIndexOf(self, self.uv_p1, FALSE)
        ca_p2 == ImageIndexOf(self, self.intersection_point, TRUE)
        ca_p3 == ImageIndexOf(self, self.lv_p1, FALSE)
        exc   == IF ca_p1.raised # NoError THEN ca_p1.raised
                 ELSE IF ca_p2.raised # NoError THEN ca_p2.raised
                 ELSE ca_p3.raised
        calls == IF ca_p1.raised # NoError THEN ca_p1.calls
                 ELSE IF ca_p2.raised # NoError THEN ca_p1.calls + ca_p2.calls
                 ELSE ca_p1.calls + ca_p2.calls + ca_p3.calls
    IN  Getter("get_angle_indices", exc,
               IF exc # NoError THEN NoReturn
               ELSE Returned("tuple", << ca_p1.index, ca_p2.index, ca_p3.index >>),
               Conversions(calls))

Next ==
    \/ Execute
    \/ SetUvLabelIndex
    \/ SetLvLabelIndex
    \/ SetLabelMap
    \/ get_uv_oriented_bbox_vertices
    \/ get_lv_oriented_bbox_vertices
    \/ get_uv_oriented_bbox_indices
    \/ get_lv_oriented_bbox_indices
    \/ get_cobb_angle
    \/ get_intersection_point_index
    \/ get_angle_indices

Spec == Init /\ [][Next]_vars

-----------------------------------------------------------------------------
(* Properties.                                                             *)

\* The fields execute() writes.
ResultFields ==
    { "uv_oriented_bbox_vertices", "lv_oriented_bbox_vertices",
      "uv_p1", "uv_p2", "lv_p1", "lv_p2", "intersection_point", "cobb_angle" }

\* The object with its inputs kept and every result field as constructed.
Fresh(s) == Construct(s.label_map, s.uv_label_index, s.lv_label_index)

Results(s) == [f \in ResultFields |-> s[f]]

TangentStageDone == stage >= 3

\* C1: tangent selection is by fixed vertex index.  Whenever the tangent
\* stage of the last execute() completed on two boxes of the same
\* dimensionality, the upper tangent is (uvBox[0], uvBox[1]) and the lower
\* tangent is (lvBox[6], lvBox[7]) for 8-vertex boxes, (lvBox[2], lvBox[3])
\* for 4-vertex boxes.
C1_TangentByFixedIndex ==
    LET uv == self.uv_oriented_bbox_vertices
        lv == self.lv_oriented_bbox_vertices
    IN  (last_op = "execute" /\ TangentStageDone /\ Len(uv) = Len(lv)) =>
            /\ self.uv_p1 = uv[1]
            /\ self.uv_p2 = uv[2]
            /\ Len(uv) = 8 => (self.lv_p1 = lv[7] /\ self.lv_p2 = lv[8])
            /\ Len(uv) = 4 => (self.lv_p1 = lv[3] /\ self.lv_p2 = lv[4])

\* A completed 3-D run on two different boxes whose lower edges (0,1) and
\* (6,7) differ.
C1_Witness ==
    /\ last_op = "execute"
    /\ stage = 5
    /\ Len(self.uv_oriented_bbox_vertices) = 8
    /\ Len(self.lv_oriented_bbox_vertices) = 8
    /\ self.uv_oriented_bbox_vertices # self.lv_oriented_bbox_vertices
    /\ self.lv_oriented_bbox_vertices[1] # self.lv_oriented_bbox_vertices[7]

\* C2: a failed execute() discards its partial results: after it every
\* result field is what it was before the call or is unset.
C2_PartialResultsDiscarded ==
    [][(last_op' = "execute" /\ raised' # NoError) =>
          \A f \in ResultFields : self'[f] = self[f] \/ self'[f] = Fresh(self)[f]]_vars

\* C3: while no result field has been written (the object is as
\* constructed), every getter raises or returns None, never a value.
C3_GettersBeforeExecute ==
    (Results(self) = Results(Fresh(self)) /\ last_op \notin {"init", "execute",
        "set_uv_label_index", "set_lv_label_index", "set_label_map"}) =>
            (raised # NoError \/ ret.kind = "None")

\* The filter returns a vertex list for the label whose length is neither
\* 8 * 3 nor 4 * 2.
WrongVertexCount(lm, label) ==
    LET out == GetOrientedBoundingBoxVertices(lm, label)
    IN  out.raised = NoError /\ Len(out.vertices) \notin {8, 24}

\* The filter returns a full vertex list for the label.
RightVertexCount(lm, label) ==
    LET out == GetOrientedBoundingBoxVertices(lm, label)
    IN  out.raised = NoError /\ Len(out.vertices) = Pow2(MapDim(lm)) * MapDim(lm)

\* C4: the extractor reports 8 vertices for a 3-D label map and 4 for a
\* 2-D one, and a vertex list of any other length from the filter makes
\* the extraction fail with GeometryException.
C4_VertexCountChecked ==
    last_op = "execute" =>
        /\ (stage >= 1 /\ RightVertexCount(self.label_map, self.uv_label_index)) =>
                Len(self.uv_oriented_bbox_vertices) = Pow2(MapDim(self.label_map))
        /\ (stage >= 2 /\ RightVertexCount(self.label_map, self.lv_label_index)) =>
                Len(self.lv_oriented_bbox_vertices) = Pow2(MapDim(self.label_map))
        /\ WrongVertexCount(self.label_map, self.uv_label_index) =>
                raised = "GeometryException"
        /\ (stage >= 1 /\ WrongVertexCount(self.label_map, self.lv_label_index)) =>
                raised = "GeometryException"

\* C5: tangent selection raises GeometryException when it is handed boxes
\* of different dimensionality or a box that is not an 8- or 4-vertex box.
C5_MismatchRaises ==
    LET uv == self.uv_oriented_bbox_vertices
        lv == self.lv_oriented_bbox_vertices
    IN  (last_op = "execute" /\ stage >= 2 /\ (uv = None \/ lv = None \/ Len(uv) # Len(lv))) =>
            raised = "GeometryException"

\* C6: a tangent line whose two endpoints coincide makes the angle stage
\* raise GeometryException.
C6_DegenerateLineRaises ==
    (last_op = "execute" /\ TangentStageDone /\ (self.uv_p1 = self.uv_p2 \/ self.lv_p1 = self.lv_p2)) =>
        raised = "GeometryException"

\* The two tangent lines are parallel and do not meet: both directions are
\* non-zero, the normal equations are singular and the residual is not zero.
ParallelApart(s) ==
    LET d1 == VSub(s.uv_p2, s.uv_p1)
        d2 == VSub(s.lv_p2, s.lv_p1)
        w  == VSub(s.uv_p1, s.lv_p1)
        a  == Dot(d1, d1)
    IN  /\ a # 0
        /\ Dot(d2, d2) # 0
        /\ a * Dot(d2, d2) = Dot(d1, d2) * Dot(d1, d2)
        /\ a * Dot(w, w) # Dot(d1, w) * Dot(d1, w)

\* C7: for two parallel tangent lines that do not meet the intersection
\* stage raises GeometryException.
C7_ParallelRaises ==
    (last_op = "execute" /\ TangentStageDone /\ ParallelApart(self)) =>
        raised = "GeometryException"

\* Both labels are boxes of a 2-D label map and the image is 2-D.
TwoDimInput(s) ==
    /\ s.dimension = 2
    /\ MapDim(s.label_map) = 2
    /\ RightVertexCount(s.label_map, s.uv_label_index)
    /\ RightVertexCount(s.label_map, s.lv_label_index)

\* C8: after a successful execute() the four tangent endpoints and the
\* intersection point have as many coordinates as the image has
\* dimensions, and execute() on a 2-D input is successful.
C8_DimensionConsistent ==
    last_op = "execute" =>
        /\ raised = NoError =>
              \A f \in {"uv_p1", "uv_p2", "lv_p1", "lv_p2", "intersection_point"} :
                  Len(self[f]) = self.dimension
        /\ TwoDimInput(self) => raised = NoError

\* C9: after any execute() every result field is what execute() computes
\* from the same inputs on an object that has never run.
C9_RecomputedFromScratch ==
    last_op = "execute" => Results(self) = Results(execute(Fresh(self)).self)

\* C10: execute() on a calculator that has run and whose inputs were not
\* reassigned since leaves every field as the earlier run left it and stops
\* at the same stage.
C10_ExecuteTwiceSame ==
    [][(last_op' = "execute" /\ runs >= 1) => (self' = self /\ stage' = stage)]_vars

\* A second successful run with a non-zero angle and an intersection point.
C10_Witness ==
    /\ last_op = "execute"
    /\ runs = 2
    /\ stage = 5
    /\ ~self.cobb_angle.nan
    /\ self.cobb_angle.deg > 0

\* The getters that convert physical points to image indices.
IndexGetters ==
    { "get_uv_oriented_bbox_indices", "get_lv_oriented_bbox_indices",
      "get_intersection_point_index", "get_angle_indices" }

\* C11 as stated: an execute() that completes has run box extraction,
\* tangent selection, angle, intersection and then coordinate mapping, each
\* once and in this order.
C11_AllStagesInExecute ==
    (last_op = "execute" /\ raised = NoError) => ran = Pipeline \o << ToIndex >>

\* C11 amended: execute() enters the stages upper box, lower box, tangent
\* selection, angle, intersection in this order, each at most once and none
\* before the ones ahead of it completed; it enters all five when it
\* completes and stops at the stage that raises otherwise.  It never runs
\* the coordinate mapping: only the index getters do, once per point they
\* convert, and they run nothing else.
C11_StagesInOrder ==
    /\ last_op = "execute" =>
          /\ \E n \in 1..Len(Pipeline) : ran = SubSeq(Pipeline, 1, n)
          /\ raised = NoError => (ran = Pipeline /\ stage = Len(Pipeline))
          /\ raised # NoError => Len(ran) \in {stage + 1, Len(Pipeline)}
          /\ \A i \in 1..Len(ran) : ran[i] # ToIndex
    /\ last_op \in IndexGetters =>
          /\ \A i \in 1..Len(ran) : ran[i] = ToIndex
          /\ raised = NoError => Len(ran) >= 1
    /\ last_op \notin (IndexGetters \cup {"execute"}) => ran = <<>>

\* An index getter that returned after a completed execute().
C11_Witness ==
    /\ stage = Len(Pipeline)
    /\ runs >= 1
    /\ last_op = "get_angle_indices"
    /\ raised = NoError
    /\ Len(ran) = 3

\* Both labels are boxes of the label map and the image has the label
\* map's dimension.
BoxInput(s) ==
    /\ s.dimension = MapDim(s.label_map)
    /\ RightVertexCount(s.label_map, s.uv_label_index)
    /\ RightVertexCount(s.label_map, s.lv_label_index)

\* C12: after execute() on a 2-D or 3-D input whose two labels are boxes,
\* get_angle_indices returns the 3-tuple (index of uv_p1, index of the
\* intersection point, index of lv_p1), each from the image's
\* physical-to-index transform.
C12_AngleIndices ==
    (last_op = "get_angle_indices" /\ runs >= 1 /\ BoxInput(self)) =>
        /\ raised = NoError
        /\ ret.kind = "tuple"
        /\ ret.val = << TransformPhysicalPointToIndex(self.image, AsPoint(self.uv_p1)).index,
                        TransformPhysicalPointToIndex(self.image, self.intersection_point).index,
                        TransformPhysicalPointToIndex(self.image, AsPoint(self.lv_p1)).index >>

\* The same for 3-D inputs only.
C12_AngleIndices3D ==
    MapDim(self.label_map) = 3 => C12_AngleIndices

--------------------------------------------------------------------------
\* The angle and intersection stages on arbitrary tangent lines.
\*
\* `lines` holds the four tangent endpoints and the two results of one
\* calculator, and how many of the two stages have run (pc).

\* Largest absolute coordinate of a free tangent endpoint.
MaxCoord == 1

Coord == -MaxCoord..MaxCoord

\* First endpoints of the upper and lower line.
UpperStarts3D == { << 0, 0, 0 >>, << 1, 0, -1 >> }
LowerStarts3D == { << 0, 1, 0 >>, << 1, 1, 1 >> }
UpperStarts2D == { << 0, 0 >> }
LowerStarts2D == { << 0, 0 >>, << 0, 1 >> }

Points(dim) == [1..dim -> Coord]

\* The fields the two stages read and write, as __init__ and
\* __set_bbox_tan_line_points leave them.
TangentLines(p1, p2, q1, q2) ==
    [uv_p1 |-> p1, uv_p2 |-> p2, lv_p1 |-> q1, lv_p2 |-> q2,
     cobb_angle |-> Number(0), intersection_point |-> None]

InitLines ==
    /\ \E dim \in {2, 3} :
         \E p1 \in (IF dim = 3 THEN UpperStarts3D ELSE UpperStarts2D),
            q1 \in (IF dim = 3 THEN LowerStarts3D ELSE LowerStarts2D),
            p2 \in Points(dim), q2 \in Points(dim) :
              lines = [obj |-> TangentLines(p1, p2, q1, q2), pc |-> 0, raised |-> NoError]
    /\ self = Unused /\ last_op = Unused /\ raised = Unused /\ stage = Unused
    /\ ret = Unused /\ edits = Unused /\ runs = Unused /\ ran = Unused
    /\ pair = Unused /\ roi = Unused /\ seg = Unused

notLines == << self, last_op, raised, stage, ret, edits, runs, ran, pair, roi, seg >>

\* self.cobb_angle = self.__calc_angle_between_lines()
calc_angle_between_lines ==
    /\ lines.pc = 0
    /\ lines' = [lines EXCEPT !.obj.cobb_angle = CalcAngleBetweenLines(lines.obj),
                              !.pc = 1]
    /\ UNCHANGED notLines

\* self.__calc_intersection()
calc_intersection ==
    /\ lines.pc = 1
    /\ LET r == CalcIntersection(lines.obj)
       IN  lines' = [obj |-> r.self, pc |-> 2, raised |-> r.raised]
    /\ UNCHANGED notLines

NextLines == calc_angle_between_lines \/ calc_intersection

SpecLines == InitLines /\ [][NextLines]_vars

\* Direction vectors of the two lines.
UpperDirection == VSub(lines.obj.uv_p2, lines.obj.uv_p1)
LowerDirection == VSub(lines.obj.lv_p2, lines.obj.lv_p1)

IsZero(v) == \A i \in 1..Len(v) : v[i] = 0

NonDegenerate == ~IsZero(UpperDirection) /\ ~IsZero(LowerDirection)

\* line1 = -k * line2 for a positive rational k = b / a.
AntiParallel ==
    \E a, b \in 1..(2 * MaxCoord + 2) :
        \A i \in 1..Len(UpperDirection) : a * UpperDirection[i] = -b * LowerDirection[i]

\* C13: for non-degenerate tangent lines the angle is a number in
\* [0, 180] degrees; it is 0 when the direction vectors are equal, 90 when
\* their dot product is zero and 180 when they are anti-parallel.
C13_AngleBetween ==
    (lines.pc >= 1 /\ NonDegenerate) =>
        /\ ~lines.obj.cobb_angle.nan
        /\ lines.obj.cobb_angle.deg \in 0..180
        /\ UpperDirection = LowerDirection => lines.obj.cobb_angle.deg = 0
        /\ Dot(UpperDirection, LowerDirection) = 0 => lines.obj.cobb_angle.deg = 90
        /\ AntiParallel => lines.obj.cobb_angle.deg = 180

\* Anti-parallel lines of different lengths and starts have their 180 degrees.
C13_Witness ==
    /\ lines.pc >= 1
    /\ lines.obj.uv_p1 = << 1, 0, -1 >> /\ lines.obj.uv_p2 = << -1, 0, -1 >>
    /\ lines.obj.lv_p1 = << 0, 1, 0 >> /\ lines.obj.lv_p2 = << 1, 1, 0 >>
    /\ AntiParallel
    /\ lines.obj.cobb_angle = Number(180)

\* Rational vectors: difference, dot product with an integer vector, and
\* cross product with an integer 3-vector.
RVSub(a, b) == [i \in 1..Len(a) |-> RSub(a[i], b[i])]

RDot3(a, v) ==
    RAdd(RMul(a[1], RInt(v[1])), RAdd(RMul(a[2], RInt(v[2])), RMul(a[3], RInt(v[3]))))

RCross3(a, v) ==
    << RSub(RMul(a[2], RInt(v[3])), RMul(a[3], RInt(v[2]))),
       RSub(RMul(a[3], RInt(v[1])), RMul(a[1], RInt(v[3]))),
       RSub(RMul(a[1], RInt(v[2])), RMul(a[2], RInt(v[1]))) >>

Cross3(u, v) ==
    << u[2] * v[3] - u[3] * v[2], u[3] * v[1] - u[1] * v[3], u[1] * v[2] - u[2] * v[1] >>

RZero == << RInt(0), RInt(0), RInt(0) >>

\* The lines are not parallel and lie in one plane: they meet in exactly
\* one point.
MeetInOnePoint ==
    LET n == Cross3(UpperDirection, LowerDirection)
    IN  /\ ~IsZero(n)
        /\ Dot(VSub(lines.obj.lv_p1, lines.obj.uv_p1), n) = 0

\* The points of the two lines at the fitted parameters.
FittedParameters ==
    LeastSquares(lines.obj.uv_p1, lines.obj.uv_p2, lines.obj.lv_p1, lines.obj.lv_p2, Estimates)

UpperClosest == [i \in 1..3 |-> Along(lines.obj.uv_p1, lines.obj.uv_p2, i, FittedParameters[1])]
LowerClosest == [i \in 1..3 |-> Along(lines.obj.lv_p1, lines.obj.lv_p2, i, FittedParameters[2])]

GetterNames ==
    { "get_uv_oriented_bbox_vertices", "get_lv_oriented_bbox_vertices",
      "get_uv_oriented_bbox_indices", "get_lv_oriented_bbox_indices",
      "get_cobb_angle", "get_intersection_point_index", "get_angle_indices" }

\* The inputs the calculator is constructed with.
InputFields == { "image", "label_map", "uv_label_index", "lv_label_index", "dimension" }

Inputs(s) == [f \in InputFields |-> s[f]]

\* C15: no getter call changes any field of the calculator, and neither
\* execute() nor a getter changes the image, the label map, the two label
\* indices or the stored dimension.
C15_ReadOnly ==
    [][ /\ last_op' \in GetterNames => self' = self
        /\ last_op' \in (GetterNames \cup {"execute"}) => Inputs(self') = Inputs(self)
      ]_vars

\* An index getter has returned the converted upper box after a completed
\* execute().
C15_Witness ==
    /\ last_op = "get_uv_oriented_bbox_indices"
    /\ raised = NoError
    /\ stage = Len(Pipeline)
    /\ ret.kind = "array"
    /\ ret.val # self.uv_oriented_bbox_vertices

--------------------------------------------------------------------------
\* Two calculators over one label map, their execute() calls interleaved
\* stage by stage.
\*
\* `pair` maps each instance to its object, the number of stages it has
\* completed (pc), the exception that ended its execute(), the arguments it
\* was constructed with, and whether it took a step while the other
\* instance was in the middle of its own execute().

Instances == {1, 2}

Other(i) == 3 - i

\* Stage k of execute() applied to the object s.
RunStage(s, k) ==
    IF k = 1 THEN CalcUvBboxVertices(s)
    ELSE IF k = 2 THEN CalcLvBboxVertices(s)
    ELSE IF k = 3 THEN SetBboxTanLinePoints(s)
    ELSE IF k = 4 THEN Outcome([s EXCEPT !.cobb_angle = CalcAngleBetweenLines(s)], NoError)
    ELSE CalcIntersection(s)

Running(inst) == inst.raised = NoError /\ inst.pc < Len(Pipeline)

MidWay(inst) == Running(inst) /\ inst.pc > 0

InitPair ==
    /\ \E lm \in LabelMaps, a \in Labels \X Labels, b \in Labels \X Labels :
         /\ a # b
         /\ pair = [i \in Instances |->
                      LET args == IF i = 1 THEN a ELSE b
                      IN  [obj |-> Construct(lm, args[1], args[2]), pc |-> 0,
                           raised |-> NoError, args |-> << lm, args[1], args[2] >>,
                           overlapped |-> FALSE]]
    /\ self = Unused /\ last_op = Unused /\ raised = Unused /\ stage = Unused
    /\ ret = Unused /\ edits = Unused /\ runs = Unused /\ ran = Unused
    /\ lines = Unused /\ roi = Unused /\ seg = Unused

notPair == << self, last_op, raised, stage, ret, edits, runs, ran, lines, roi, seg >>

\* The upper box of an instance stored where every instance reads it.
execute_stage_shared(i) ==
    /\ Running(pair[i])
    /\ LET r == RunStage(pair[i].obj, pair[i].pc + 1)
           j == Other(i)
       IN  pair' = [pair EXCEPT
                      ![i] = [@ EXCEPT !.obj = r.self, !.raised = r.raised,
                                       !.pc = IF r.raised = NoError THEN @ + 1 ELSE @,
                                       !.overlapped = @ \/ MidWay(pair[j])],
                      ![j] = [@ EXCEPT !.obj.uv_oriented_bbox_vertices =
                                           r.self.uv_oriented_bbox_vertices]]
    /\ UNCHANGED notPair

\* Instance i runs the next stage of its execute(); an exception ends the
\* call.
execute_stage(i) ==
    /\ Running(pair[i])
    /\ LET r == RunStage(pair[i].obj, pair[i].pc + 1)
       IN  pair' = [pair EXCEPT
                      ![i] = [@ EXCEPT !.obj = r.self, !.raised = r.raised,
                                       !.pc = IF r.raised = NoError THEN @ + 1 ELSE @,
                                       !.overlapped = @ \/ MidWay(pair[Other(i)])]]
    /\ UNCHANGED notPair

NextPair == \E i \in Instances : execute_stage(i)

SpecPair == InitPair /\ [][NextPair]_vars

\* execute() of an instance running alone on the arguments it was made with.
Alone(inst) == execute(Construct(inst.args[1], inst.args[2], inst.args[3]))

\* C16: under any interleaving of the stages of two instances over the same
\* label map, an instance whose execute() has ended holds exactly the
\* object, and has raised exactly the exception, of the same call running
\* alone.
C16_InstancesIndependent ==
    \A i \in Instances :
        ~Running(pair[i]) =>
            /\ pair[i].obj = Alone(pair[i]).self
            /\ pair[i].raised = Alone(pair[i]).raised

\* Both calls completed, each having taken steps in the middle of the
\* other, with different angles.
C16_Witness ==
    /\ \A i \in Instances :
          pair[i].pc = Len(Pipeline) /\ pair[i].raised = NoError /\ pair[i].overlapped
    /\ pair[1].obj.cobb_angle # pair[2].obj.cobb_angle

--------------------------------------------------------------------------
\* SubImageManager2D: the region of interest around a centre.
\*
\* `roi` holds the fields of one SubImageManager2D, the size of its image,
\* the last method called and what that call raised and returned.

\* Largest image width and height.
MaxSize == 3

Min(a, b) == IF a < b THEN a ELSE b

Max(a, b) == IF a > b THEN a ELSE b

ImageSides == 1..MaxSize

\* Centres from one pixel before the image to one pixel after it.
Centres == -1..(MaxSize + 1)

\* Requested widths and heights, up to one more than the largest image.
Extents == 0..(MaxSize + 1)

\* calculate_indices with the start clamped to the image size instead of
\* the last pixel.
CalculateIndicesUpToSize(r) ==
    LET image_width  == r.image_size[1]
        image_height == r.image_size[2]
        start_col == Max(0, Min(r.centre_col - r.width \div 2, image_width))
        start_row == Max(0, Min(r.centre_row - r.height \div 2, image_height))
    IN  [r EXCEPT !.start_col = start_col,
                  !.start_row = start_row,
                  !.end_col = Min(start_col + r.width, image_width),
                  !.end_row = Min(start_row + r.height, image_height)]

\* SubImageManager2D.calculate_indices
CalculateIndices(r) ==
    LET image_width  == r.image_size[1]
        image_height == r.image_size[2]
        start_col == Max(0, Min(r.centre_col - r.width \div 2, image_width - 1))
        start_row == Max(0, Min(r.centre_row - r.height \div 2, image_height - 1))
    IN  [r EXCEPT !.start_col = start_col,
                  !.start_row = start_row,
                  !.end_col = Min(start_col + r.width, image_width),
                  !.end_row = Min(start_row + r.height, image_height)]

\* SubImageManager2D.__init__, which ends with calculate_indices().
SubImageManager2D(size, centre_col, centre_row, width, height) ==
    CalculateIndices([image_size |-> size,
                      centre_col |-> centre_col, centre_row |-> centre_row,
                      width |-> width, height |-> height,
                      start_col |-> 0, start_row |-> 0, end_col |-> 0, end_row |-> 0,
                      last_op |-> "__init__", raised |-> NoError, ret |-> None])

InitRoi ==
    /\ \E w \in ImageSides, h \in ImageSides, cc \in Centres, cr \in Centres,
          width \in Extents, height \in Extents :
            roi = SubImageManager2D(<< w, h >>, cc, cr, width, height)
    /\ self = Unused /\ last_op = Unused /\ raised = Unused /\ stage = Unused
    /\ ret = Unused /\ edits = Unused /\ runs = Unused /\ ran = Unused
    /\ lines = Unused /\ pair = Unused /\ seg = Unused

notRoi == << self, last_op, raised, stage, ret, edits, runs, ran, lines, pair, seg >>

\* manager.calculate_indices()
calculate_indices ==
    /\ roi' = [CalculateIndices(roi) EXCEPT !.last_op = "calculate_indices",
                                            !.raised = NoError, !.ret = None]
    /\ UNCHANGED notRoi

\* manager.extract_roi(): sitk.RegionOfInterest of the computed size at the
\* computed index.  A region with an empty side is the library's to accept
\* or reject; any exception is re-raised as SubImageManager2DException.
extract_roi ==
    LET roi_size == << roi.end_col - roi.start_col, roi.end_row - roi.start_row >>
        roi_start_index == << roi.start_col, roi.start_row >>
        region == [size |-> roi_size, index |-> roi_start_index]
    IN  /\ \E accepted \in (IF roi_size[1] > 0 /\ roi_size[2] > 0
                            THEN {TRUE} ELSE BOOLEAN) :
              roi' = [roi EXCEPT !.last_op = "extract_roi",
                                 !.raised = IF accepted THEN NoError
                                            ELSE "SubImageManager2DException",
                                 !.ret = IF accepted THEN region ELSE None]
        /\ UNCHANGED notRoi

NextRoi == calculate_indices \/ extract_roi

SpecRoi == InitRoi /\ [][NextRoi]_vars

\* The requested window lies entirely inside the image.
WindowFits ==
    /\ roi.centre_col - roi.width \div 2 >= 0
    /\ roi.centre_col - roi.width \div 2 + roi.width <= roi.image_size[1]
    /\ roi.centre_row - roi.height \div 2 >= 0
    /\ roi.centre_row - roi.height \div 2 + roi.height <= roi.image_size[2]

\* C17: after calculate_indices the region lies inside the image,
\* 0 <= start_col <= W-1, start_col <= end_col <= W, 0 <= start_row <= H-1,
\* start_row <= end_row <= H, and a window that fits entirely inside the
\* image keeps exactly the requested width and height.
C17_RoiInsideImage ==
    LET W == roi.image_size[1]
        H == roi.image_size[2]
    IN  /\ 0 <= roi.start_col /\ roi.start_col <= W - 1
        /\ roi.start_col <= roi.end_col /\ roi.end_col <= W
        /\ 0 <= roi.start_row /\ roi.start_row <= H - 1
        /\ roi.start_row <= roi.end_row /\ roi.end_row <= H
        /\ WindowFits => /\ roi.end_col - roi.start_col = roi.width
                         /\ roi.end_row - roi.start_row = roi.height

\* A window centred past the right edge is cut to the last column, while
\* its rows fit.
C17_Witness ==
    /\ roi.last_op = "calculate_indices"
    /\ roi.image_size = << 3, 3 >>
    /\ roi.centre_col = 4 /\ roi.width = 2
    /\ roi.centre_row = 1 /\ roi.height = 2
    /\ roi.start_col = 2 /\ roi.end_col = 3
    /\ roi.start_row = 0 /\ roi.end_row = 2

--------------------------------------------------------------------------
\* ThresholdSegmentation on a single-row image.
\*
\* `seg` holds the image (a row of intensities), the two thresholds, the
\* automatic-thresholds flag, the arguments of the constructor, the methods
\* called so far, the last method called with what it raised and returned,
\* and the component image and selected label of the last execute().

\* Number of pixels of the row.
RowLen == 4

\* Largest intensity of a pixel.
MaxIntensity == 1

Intensities == 0..MaxIntensity

Rows == [1..RowLen -> Intensities]

\* self.__lbp and self.__ubp, in hundredths.
LbpHundredths == 46

UbpHundredths == 81

\* sitk.BinaryThreshold(image, lower, upper, inside 1, outside 0)
BinaryThreshold(image, lower, upper) ==
    [i \in 1..Len(image) |-> IF lower <= image[i] /\ image[i] <= upper THEN 1 ELSE 0]

\* Pixel i starts a component of the row: it is set and its left
\* neighbour is not.
StartsComponent(mask, i) == mask[i] = 1 /\ (i = 1 \/ mask[i - 1] = 0)

\* sitk.ConnectedComponentImageFilter: components numbered 1, 2, ... in
\* scan order, background 0.
ConnectedComponent(mask) ==
    [i \in 1..Len(mask) |->
        IF mask[i] = 0 THEN 0
        ELSE Cardinality({j \in 1..i : StartsComponent(mask, j)})]

\* The labels in descending order.
GetLabelsDescending(components) ==
    LET n == Cardinality({components[i] : i \in 1..Len(components)} \ {0})
    IN  [k \in 1..n |-> n + 1 - k]

\* LabelShapeStatisticsImageFilter.GetLabels(): the labels in ascending
\* order.
GetLabels(components) ==
    LET n == Cardinality({components[i] : i \in 1..Len(components)} \ {0})
    IN  [k \in 1..n |-> k]

\* LabelShapeStatisticsImageFilter.GetNumberOfPixels(label)
GetNumberOfPixels(components, label) ==
    Cardinality({i \in 1..Len(components) : components[i] = label})


\* sitk.BinaryFillholeImageFilter: background not connected to the image
\* border is filled.  Every pixel of a single-row image lies on the border,
\* so nothing is filled.
BinaryFillhole(mask) == mask

\* The threshold of sitk.HuangThresholdImageFilter lies within the range of
\* the image; which of its levels it is, is left open.
HuangThresholds(image) == {image[i] : i \in 1..Len(image)}

RECURSIVE SumOver(_, _, _)
\* Sum of f[i] over the indices i of the set.
SumOver(f, indices, square) ==
    IF indices = {} THEN 0
    ELSE LET i == CHOOSE j \in indices : TRUE
         IN  (IF square THEN f[i] * f[i] ELSE f[i]) + SumOver(f, indices \ {i}, square)

\* Candidates for the floor and the ceiling.
ThresholdRange == (-(MaxIntensity + 1))..(2 * MaxIntensity + 1)

\* ThresholdSegmentation.calculate_thresholds with the Huang threshold t:
\* label 1 is the pixels above t, (mean, sigma) their mean and sample
\* standard deviation (0 and 0 when there are none),
\*   lower = floor(mean - sigma * lbp),  upper = ceil(mean + sigma * ubp).
\* With n pixels of sum S and sum of squares Q, sigma^2 = (nQ - S^2)/(n(n-1)),
\* so k <= mean - sigma * lbp  iff  S - kn >= 0 and
\* lbp^2 n (nQ - S^2) <= (n-1) (S - kn)^2, and likewise for the ceiling.
CalculateThresholds(s, t) ==
    LET label1 == {i \in 1..Len(s.image) : s.image[i] > t}
        n == Cardinality(label1)
        S == SumOver(s.image, label1, FALSE)
        Q == SumOver(s.image, label1, TRUE)
        AtMost(k) == /\ S - k * n >= 0
                     /\ LbpHundredths * LbpHundredths * n * (n * Q - S * S)
                            <= 10000 * (n - 1) * (S - k * n) * (S - k * n)
        AtLeast(k) == /\ k * n - S >= 0
                      /\ UbpHundredths * UbpHundredths * n * (n * Q - S * S)
                            <= 10000 * (n - 1) * (k * n - S) * (k * n - S)
        floor == CHOOSE k \in ThresholdRange : AtMost(k) /\ ~AtMost(k + 1)
        ceil  == CHOOSE k \in ThresholdRange : AtLeast(k) /\ ~AtLeast(k - 1)
    IN  IF n = 0
        THEN [s EXCEPT !.lower_threshold = 0, !.upper_threshold = 0]
        ELSE [s EXCEPT !.lower_threshold = floor, !.upper_threshold = ceil]

RECURSIVE SelectLargest(_, _, _, _, _)
\* The loop of execute() over the labels from the k-th on:
\*   if current_size > max_size: max_size, max_label_index = current_size, label_index
SelectLargest(components, labels, k, max_size, max_label_index) ==
    IF k > Len(labels) THEN max_label_index
    ELSE LET current_size == GetNumberOfPixels(components, labels[k])
         IN  IF current_size > max_size
             THEN SelectLargest(components, labels, k + 1, current_size, labels[k])
             ELSE SelectLargest(components, labels, k + 1, max_size, max_label_index)

\* ThresholdSegmentation.__init__
ThresholdSegmentation(image, lb, ub) ==
    [image |-> image, lower_threshold |-> lb, upper_threshold |-> ub,
     automatic_thresholds |-> FALSE,
     constructed |-> << lb, ub >>, called |-> {},
     last_op |-> "__init__", raised |-> NoError, ret |-> None,
     connected_components |-> None, max_label_index |-> None]

\* ThresholdSegmentation.execute with the Huang threshold t.  The binary
\* threshold filter rejects a lower threshold above the upper one; every
\* exception is re-raised as SegmentationException.
ThresholdSegmentationExecute(s, t) ==
    LET s1 == IF s.automatic_thresholds THEN CalculateThresholds(s, t) ELSE s
        threshold_output == BinaryThreshold(s1.image, s1.lower_threshold, s1.upper_threshold)
        connected_components == ConnectedComponent(threshold_output)
        components == GetLabels(connected_components)
        max_label_index == SelectLargest(connected_components, components, 1, 0, 1)
        max_connected_component ==
            BinaryThreshold(connected_components, max_label_index, max_label_index)
    IN  IF s1.lower_threshold > s1.upper_threshold
        THEN [s1 EXCEPT !.raised = "SegmentationException", !.ret = None,
                        !.connected_components = None, !.max_label_index = None]
        ELSE [s1 EXCEPT !.raised = NoError,
                        !.ret = BinaryFillhole(max_connected_component),
                        !.connected_components = connected_components,
                        !.max_label_index = max_label_index]

InitSeg ==
    /\ \E image \in Rows, lb \in Intensities, ub \in Intensities :
         seg = ThresholdSegmentation(image, lb, ub)
    /\ self = Unused /\ last_op = Unused /\ raised = Unused /\ stage = Unused
    /\ ret = Unused /\ edits = Unused /\ runs = Unused /\ ran = Unused
    /\ lines = Unused /\ pair = Unused /\ roi = Unused

notSeg == << self, last_op, raised, stage, ret, edits, runs, ran, lines, pair, roi >>

Called(s, name) == [s EXCEPT !.last_op = name, !.called = @ \cup {name}]

\* segmentation.set_automatic_thresholds_ON()
set_automatic_thresholds_ON ==
    /\ seg' = [Called(seg, "set_automatic_thresholds_ON") EXCEPT
                  !.automatic_thresholds = TRUE, !.raised = NoError, !.ret = None]
    /\ UNCHANGED notSeg

\* segmentation.calculate_thresholds(), called by the user
calculate_thresholds ==
    /\ \E t \in HuangThresholds(seg.image) :
         seg' = [CalculateThresholds(Called(seg, "calculate_thresholds"), t) EXCEPT
                    !.raised = NoError, !.ret = None]
    /\ UNCHANGED notSeg

\* segmentation.execute()
segmentation_execute ==
    /\ \E t \in HuangThresholds(seg.image) :
         seg' = ThresholdSegmentationExecute(Called(seg, "execute"), t)
    /\ UNCHANGED notSeg

NextSeg == set_automatic_thresholds_ON \/ calculate_thresholds \/ segmentation_execute

SpecSeg == InitSeg /\ [][NextSeg]_vars

\* The pixels within the thresholds the object holds.
WithinThresholds ==
    {i \in 1..Len(seg.image) :
        seg.lower_threshold <= seg.image[i] /\ seg.image[i] <= seg.upper_threshold}

\* The connected components of those pixels: the maximal intervals a..b of
\* the row inside WithinThresholds.
ComponentIntervals ==
    {r \in (1..RowLen) \X (1..RowLen) :
        /\ r[1] <= r[2]
        /\ \A i \in r[1]..r[2] : i \in WithinThresholds
        /\ (r[1] - 1) \notin WithinThresholds
        /\ (r[2] + 1) \notin WithinThresholds}

\* The pixels set in the returned segmentation.
Kept == {i \in 1..Len(seg.ret) : seg.ret[i] = 1}

\* After a completed execute(): the segmentation is one component of the
\* thresholded image, no component has more pixels, none of as many pixels
\* comes before it, and the selected label is its number in scan order; with
\* no component the selected label is 1 and the segmentation is empty.
LargestComponentKept ==
    (seg.last_op = "execute" /\ seg.raised = NoError) =>
        IF ComponentIntervals = {}
        THEN seg.max_label_index = 1 /\ Kept = {}
        ELSE \E r \in ComponentIntervals :
                /\ Kept = r[1]..r[2]
                /\ \A q \in ComponentIntervals :
                      \/ q[2] - q[1] < r[2] - r[1]
                      \/ (q[2] - q[1] = r[2] - r[1] /\ q[1] >= r[1])
                /\ seg.max_label_index =
                      Cardinality({q \in ComponentIntervals : q[1] <= r[1]})

Thresholds(s) == << s.lower_threshold, s.upper_threshold >>

\* The flag is set by set_automatic_thresholds_ON only, and the thresholds
\* differ from the constructor's only after an execute() that followed
\* set_automatic_thresholds_ON or after a direct calculate_thresholds().
ThresholdsAsConstructed ==
    /\ seg.automatic_thresholds <=> "set_automatic_thresholds_ON" \in seg.called
    /\ Thresholds(seg) # seg.constructed =>
          \/ {"set_automatic_thresholds_ON", "execute"} \subseteq seg.called
          \/ "calculate_thresholds" \in seg.called

\* An execute() step with the flag off leaves both thresholds as they were;
\* with the flag on it leaves the thresholds calculated from the image.
ExecuteKeepsThresholds ==
    (seg'.last_op = "execute" /\ seg'.called = seg.called \cup {"execute"}
        /\ seg.last_op # "execute") =>
        /\ seg'.automatic_thresholds = seg.automatic_thresholds
        /\ ~seg.automatic_thresholds => Thresholds(seg') = Thresholds(seg)
        /\ seg.automatic_thresholds =>
              \E t \in HuangThresholds(seg.image) :
                  Thresholds(seg') = Thresholds(CalculateThresholds(seg, t))

\* C18: execute keeps exactly one connected component, one with the
\* largest pixel count, the first in label order among equals, and selects
\* label 1 when there is no component; it overwrites the thresholds only
\* when set_automatic_thresholds_ON was called before, and otherwise uses
\* the thresholds it holds unchanged.
C18_LargestComponentAndThresholds ==
    /\ [](LargestComponentKept /\ ThresholdsAsConstructed)
    /\ [][ExecuteKeepsThresholds]_vars

\* Automatic thresholds 1..1 replace the constructor's 0..0; of the two
\* one-pixel components the first is kept.
C18_Witness ==
    /\ seg.last_op = "execute" /\ seg.raised = NoError
    /\ seg.image = << 1, 0, 1, 0 >>
    /\ seg.automatic_thresholds
    /\ seg.constructed = << 0, 0 >>
    /\ Thresholds(seg) = << 1, 1 >>
    /\ "calculate_thresholds" \notin seg.called
    /\ seg.max_label_index = 1
    /\ seg.ret = << 1, 0, 0, 0 >>

====
